---- MODULE Spec2Model ----
(***************************************************************************)
(* A model of the ClickUp webhook server (src/app.py): the Flask endpoint  *)
(* clickup_webhook, the bounded task_queue, the single worker thread       *)
(* (worker_loop / process_task_from_queue), the sliding-window rate        *)
(* limiter, and the remote ClickUp workspace the server reads and writes.  *)
(*                                                                         *)
(* Time is a discrete clock `now` counting seconds (now_ts).  Python None  *)
(* is the string "None"; an unset date is 0 (the code tests dates by       *)
(* truthiness); a dict is a function whose DOMAIN is its key set; the      *)
(* empty interval text "" is the empty tuple and "{d}d {h}h {m}m" is the   *)
(* tuple <<d, h, m>>.                                                      *)
(***************************************************************************)
EXTENDS Integers, Sequences, FiniteSets, TLC

(* ------------------------------ bounds -------------------------------- *)
\* last clock value of Spec
MaxTime == 3
\* last clock value of SpecRate
RateMaxTime == 8
\* user operations on the workspace (date edits, order creation)
MaxEdits == 2
\* webhooks delivered without a modelled user operation behind them
MaxSpontaneous == 1
\* webhooks of SpecHook and SpecRelink
MaxHooks == 2
\* process restarts
MaxRestarts == 1
\* API requests that raise (timeout, connection error)
MaxApiErrors == 1
\* the queue capacity used for checking (2000 in the source)
QueueCap == 2
\* webhooks of SpecQueue
MaxQueueHooks == 3
\* the rate limit used for checking (100 in the source)
RateCap == 5
\* the back-off threshold used for checking (90 in the source)
SafeCap == 4
\* the window length used for checking (60 in the source)
WindowLen == 3

(* ------------------------- program constants -------------------------- *)
PROCESS_COOLDOWN == 3
API_RATE_LIMIT == RateCap
API_WINDOW_SECONDS == WindowLen
API_THROTTLE_SAFE == SafeCap
TASK_QUEUE_MAX == QueueCap
\* reset_in adds 0.1 s: on the whole-second clock the sleeper wakes one tick
\* after the oldest call leaves the window
SleepMargin == 1
\* time.sleep(backoff), backoff = 1.0
Backoff == 1
\* time.sleep(2) of verify_relationship_update
VerifySleep == 2

None == "None"
Unset == 0

CUSTOMER_LIST_ID == "901811834458"
ORDER_RECORD_LIST_ID == "901812062655"
OTHER_LIST_ID == "other"

\* the tasks of the workspace: a Customer, an Order Record, a task elsewhere
TaskIds == {"c1", "o1", "x1"}
ListOf(t) ==
    IF t = "c1" THEN CUSTOMER_LIST_ID
    ELSE IF t = "o1" THEN ORDER_RECORD_LIST_ID
    ELSE OTHER_LIST_ID

\* the Flask request threads, in the order in which they take requests
HandlerOrder == <<"h1", "h2">>
Handlers == {HandlerOrder[i] : i \in DOMAIN HandlerOrder}

\* date values in epoch milliseconds: 1 min, 1 d 1 h 1 min 30 s
DateValues == {60000, 90090000}
DateFields == 1..4
\* the dates of the interval arithmetic: unset, 1 min, 1 min 59.999 s,
\* 1 d 1 h 1 min 30 s
IntervalDates == {Unset, 60000, 119999, 90090000}
IntervalNames == {"12", "23", "34"}

(* ------------------------------ state --------------------------------- *)
VARIABLES
    now,                  \* now_ts()
    processed_tasks,      \* dict task_id -> time
    last_date_signature,  \* dict task_id -> 4-tuple
    api_call_timestamps,  \* deque of call times
    task_queue,           \* queue.Queue(maxsize = TASK_QUEUE_MAX)
    handlers,             \* the request threads inside clickup_webhook
    w,                    \* the worker thread
    net,                  \* webhooks ClickUp has still to deliver
    dates,                \* remote: T1..T4 of the Customer task
    intervals,            \* remote: Interval 1-2 / 2-3 / 3-4 of the Customer task
    intervalFields,       \* remote: the Interval fields that exist on the task
    order,                \* remote: the Order Record task
    budget,               \* counters bounding the environment
    hist                  \* history: what was enqueued, what the worker took up

vars == <<now, processed_tasks, last_date_signature, api_call_timestamps,
          task_queue, handlers, w, net, dates, intervals, intervalFields,
          order, budget, hist>>

(* ----------------------------- payloads ------------------------------- *)
\* request.json: the keys the server reads. task.kind tells whether "task" is
\* absent, an empty dict, or a dict (whose "id" may be missing: None). A key
\* of the payload that is not there has the value Absent.
Absent == "<absent>"
Hook(t, e) ==
    [task_id |-> t, task |-> [kind |-> "absent", id |-> None], event |-> e,
     event_type |-> Absent, hook_event |-> Absent, webhook_event |-> Absent,
     action |-> Absent]
NestedHook(t, e) ==
    [Hook(None, e) EXCEPT !.task = [kind |-> "dict", id |-> t]]
NoIdPayloads ==
    { Hook(None, "taskUpdated"),
      [Hook("", "taskUpdated") EXCEPT !.task = [kind |-> "empty", id |-> None]],
      NestedHook(None, "taskUpdated") }
NoPayload == Hook(None, None)

\* what ClickUp sends for the modelled user operations
DateHook == Hook("c1", "taskUpdated")
CreateHook == Hook("o1", "taskCreated")
NetPayloads == {DateHook, CreateHook}

\* webhooks for the Order Record and for a task of another list, with the
\* event under any of the keys the worker looks at, or under none
OrderHooks ==
    { Hook("o1", "taskUpdated"),
      Hook("o1", Absent),
      [Hook("o1", Absent) EXCEPT !.action = "Create"],
      [Hook("o1", None) EXCEPT !.action = "taskCreated"],
      [Hook("o1", "taskUpdated") EXCEPT !.event_type = "taskCreated"],
      [Hook("o1", Absent) EXCEPT !.hook_event = "taskCreated"],
      Hook("x1", "taskCreated") }

\* webhooks of two tasks, to fill the queue: one names its task in task.id,
\* the other in task_id
QueueHooks == { NestedHook("c1", "taskUpdated"), Hook("x1", "taskUpdated") }

\* what may arrive besides: repeated deliveries, updates of other fields,
\* the nested form, payloads without an id
SpontPayloads ==
    { Hook("c1", "taskUpdated"), Hook("o1", "taskUpdated"), Hook("x1", "taskUpdated"),
      NestedHook("c1", "taskUpdated") } \cup NoIdPayloads

Truthy(x) == x \notin {None, ""}
PyOr(x, y) == IF Truthy(x) THEN x ELSE y

TaskFieldWholeDict(data) ==
    IF data.task.kind \in {"absent", "empty"} THEN None ELSE "dict"

\* data.get("task") and data.get("task").get("id")
TaskField(data) ==
    IF data.task.kind \in {"absent", "empty"} THEN None ELSE data.task.id

\* data.get("task_id") or (...)
ExtractTaskId(data) == PyOr(data.task_id, TaskField(data))

(* ----------------------------- responses ------------------------------ *)
Resp(s, b) == [status |-> s, body |-> b]
NoResp == Resp(0, "none")

IdleHandler ==
    [pc |-> "idle", data |-> NoPayload, task_id |-> None, current_time |-> 0,
     resp |-> NoResp, first |-> FALSE]

IdleWorker ==
    [pc |-> "idle", phase |-> "none", wake |-> 0, task_id |-> None,
     data |-> NoPayload, cur |-> 0, outcome |-> "none",
     dates |-> <<Unset, Unset, Unset, Unset>>, k |-> 0,
     client_name |-> None, existing |-> <<>>, matched |-> None]

\* history of this run of the process: (task_id, receive time, occurrence) of
\* every enqueued webhook, when the worker last took up each task, the task ids
\* that have had a webhook, whether a date was edited, whether an interval
\* calculation of the Customer task's present dates has completed, whether
\* the Client relationship of the Order Record has been written
NoHistory ==
    [enqueued |-> {}, processedAt |-> <<>>, seen |-> {}, edited |-> FALSE,
     calcDone |-> FALSE, linked |-> FALSE]

Occurrence(log, task_id, t) ==
    Cardinality({e \in log : e[1] = task_id /\ e[2] = t}) + 1

(* ------------------------------- Init --------------------------------- *)
\* the state after the module is loaded (lines 19-26, 363, 479-483), in a
\* workspace whose Customer task has the Interval fields `fields`, the dates
\* d and the Interval texts iv, and whose Order Record is ord
NoOrder == [exists |-> FALSE, client_name |-> None, client |-> <<>>]
InitWorkspace(fields, d, iv, ord) ==
    /\ now = 0
    /\ processed_tasks = <<>>
    /\ last_date_signature = <<>>
    /\ api_call_timestamps = <<>>
    /\ task_queue = <<>>
    /\ handlers = [h \in Handlers |-> IdleHandler]
    /\ w = IdleWorker
    /\ net = [p \in NetPayloads |-> 0]
    /\ dates = d
    /\ intervals = iv
    /\ intervalFields = fields
    /\ order = ord
    /\ budget = [edits |-> 0, spont |-> 0, restarts |-> 0, apiErrors |-> 0]
    /\ hist = NoHistory

\* a workspace with no date set and every Interval text empty
InitWith(fields) ==
    InitWorkspace(fields, <<Unset, Unset, Unset, Unset>>,
                  [n \in IntervalNames |-> <<>>], NoOrder)

Init == InitWith(IntervalNames)

\* the server starts on a workspace whose Customer task already has dates and
\* stale Interval texts, with any of the Interval fields present
StaleText == <<9, 9, 9>>
InitInterval ==
    \E fields \in SUBSET IntervalNames, d \in [DateFields -> IntervalDates] :
        InitWorkspace(fields, d, [n \in IntervalNames |-> StaleText], NoOrder)

\* the server starts on a workspace that has the Order Record, its Client
\* relationship empty or holding another Customer task
OtherCustomer == "c2"
InitRelink ==
    \E c \in {<<>>, <<OtherCustomer>>} :
        InitWorkspace(IntervalNames, <<Unset, Unset, Unset, Unset>>,
                      [n \in IntervalNames |-> <<>>],
                      [exists |-> TRUE, client_name |-> "ACME ", client |-> c])

\* the Customer task may lack an Interval field
InitFields == \E fields \in {IntervalNames, {"12", "34"}} : InitWith(fields)

(* ------------------------------ clock --------------------------------- *)
Tick ==
    /\ now < MaxTime
    /\ now' = now + 1
    /\ UNCHANGED <<processed_tasks, last_date_signature, api_call_timestamps,
                   task_queue, handlers, w, net, dates, intervals,
                   intervalFields, order, budget, hist>>

(* ------------------------- clickup_webhook ---------------------------- *)
\* a request is served by the first thread that is free
FirstIdle(h) ==
    \E i \in DOMAIN HandlerOrder :
        /\ HandlerOrder[i] = h
        /\ handlers[h].pc = "idle"
        /\ \A j \in 1..(i - 1) : handlers[HandlerOrder[j]].pc # "idle"

\* lines 488-503: read the payload, extract the id, the quick de-dup filter
Receive(h, data) ==
    LET task_id == ExtractTaskId(data)
        current_time == now
        rec == [handlers[h] EXCEPT !.data = data, !.task_id = task_id,
                                   !.current_time = current_time,
                                   !.first = task_id \notin hist.seen]
    IN  /\ FirstIdle(h)
        /\ IF ~Truthy(task_id)
           THEN /\ handlers' = [handlers EXCEPT ![h] =
                        [rec EXCEPT !.pc = "done", !.resp = Resp(400, "no task_id"),
                                    !.first = FALSE]]
                /\ UNCHANGED hist
           ELSE /\ hist' = [hist EXCEPT !.seen = @ \cup {task_id}]
                /\ IF /\ task_id \in DOMAIN processed_tasks
                      /\ current_time - processed_tasks[task_id] < PROCESS_COOLDOWN
                   THEN handlers' = [handlers EXCEPT ![h] =
                            [rec EXCEPT !.pc = "done", !.resp = Resp(200, "duplicate")]]
                   ELSE handlers' = [handlers EXCEPT ![h] = [rec EXCEPT !.pc = "put"]]

\* a webhook ClickUp sends for a user operation reaches the endpoint
Deliver(h) ==
    \E p \in NetPayloads :
        /\ net[p] > 0
        /\ Receive(h, p)
        /\ net' = [net EXCEPT ![p] = @ - 1]
        /\ UNCHANGED <<now, processed_tasks, last_date_signature, api_call_timestamps,
                       task_queue, w, dates, intervals, intervalFields, order, budget>>

\* any other webhook reaches the endpoint
DeliverOther(h, payloads, max) ==
    \E p \in payloads :
        /\ budget.spont < max
        /\ Receive(h, p)
        /\ budget' = [budget EXCEPT !.spont = @ + 1]
        /\ UNCHANGED <<now, processed_tasks, last_date_signature, api_call_timestamps,
                       task_queue, w, net, dates, intervals, intervalFields, order>>

\* queue.Queue(maxsize): put_nowait raises queue.Full at maxsize items
FullOffByOne(q) == Len(q) > TASK_QUEUE_MAX
Full(q) == Len(q) >= TASK_QUEUE_MAX

\* lines 506-516: task_queue.put_nowait((task_id, data)), or queue.Full
Put(h) ==
    /\ handlers[h].pc = "put"
    /\ IF ~Full(task_queue)
       THEN /\ task_queue' = Append(task_queue, <<handlers[h].task_id, handlers[h].data>>)
            /\ handlers' = [handlers EXCEPT ![h].pc = "mark"]
            /\ hist' = [hist EXCEPT !.enqueued = @ \cup
                    {<<handlers[h].task_id, handlers[h].current_time,
                       Occurrence(@, handlers[h].task_id, handlers[h].current_time)>>}]
       ELSE /\ handlers' = [handlers EXCEPT ![h].pc = "done",
                                            ![h].resp = Resp(200, "queue_full")]
            /\ UNCHANGED <<task_queue, hist>>
    /\ UNCHANGED <<now, processed_tasks, last_date_signature, api_call_timestamps,
                   w, net, dates, intervals, intervalFields, order, budget>>

\* line 511: the time written is the one read at line 498
MarkTimeNow(h) == now
MarkTime(h) == handlers[h].current_time

\* lines 511, 519: processed_tasks[task_id] = current_time; answer accepted
Mark(h) ==
    /\ handlers[h].pc = "mark"
    /\ processed_tasks' = (handlers[h].task_id :> MarkTime(h)) @@ processed_tasks
    /\ handlers' = [handlers EXCEPT ![h].pc = "done", ![h].resp = Resp(200, "accepted")]
    /\ UNCHANGED <<now, last_date_signature, api_call_timestamps, task_queue, w,
                   net, dates, intervals, intervalFields, order, budget, hist>>

\* the response is sent and the request thread is free again
Return(h) ==
    /\ handlers[h].pc = "done"
    /\ handlers' = [handlers EXCEPT ![h] = IdleHandler]
    /\ UNCHANGED <<now, processed_tasks, last_date_signature, api_call_timestamps,
                   task_queue, w, net, dates, intervals, intervalFields, order,
                   budget, hist>>

(* --------------------------- rate limiter ----------------------------- *)
DropNothing(ts, cur) == ts

\* lines 46-47: drop the timestamps that left the window
RECURSIVE DropOld(_, _)
DropOld(ts, cur) ==
    IF ts # <<>> /\ Head(ts) < cur - API_WINDOW_SECONDS
    THEN DropOld(Tail(ts), cur)
    ELSE ts

\* line 52: reset_in = API_WINDOW_SECONDS - (cur - api_call_timestamps[0]) + 0.1
ResetIn(ts, cur) == API_WINDOW_SECONDS - (cur - Head(ts)) + SleepMargin

WakeTimeBackoffOnly(ts, cur) ==
    IF Len(ts) >= API_THROTTLE_SAFE THEN cur + Backoff ELSE cur

\* lines 49-59: the time at which ensure_rate_limit returns
WakeTime(ts, cur) ==
    LET used == Len(ts)
    IN  IF used >= API_RATE_LIMIT THEN cur + ResetIn(ts, cur)
        ELSE IF used >= API_THROTTLE_SAFE THEN cur + Backoff
        ELSE cur

\* line 62
RecordApiCall(ts, t) == Append(ts, t)

\* the worker's positions inside clickup_get / clickup_post
ApiPcs == {"fetch", "post", "link_get", "link_search", "link_post", "verify", "call"}

\* ensure_rate_limit has returned (and any sleep is over): the request is sent
Ready == w.pc \in ApiPcs /\ w.phase = "request" /\ now >= w.wake

Goto(rec, pc) == [rec EXCEPT !.pc = pc, !.phase = "ensure", !.wake = 0]

\* process_task_from_queue returns to worker_loop (line 469)
Finish(outcome) ==
    [IdleWorker EXCEPT !.pc = "done", !.task_id = w.task_id, !.outcome = outcome]

\* lines 39-59, entered from clickup_get / clickup_post
EnsureRateLimit ==
    /\ w.pc \in ApiPcs
    /\ w.phase = "ensure"
    /\ now >= w.wake
    /\ LET cur == now
           ts == DropOld(api_call_timestamps, cur)
       IN  /\ api_call_timestamps' = ts
           /\ w' = [w EXCEPT !.phase = "request", !.wake = WakeTime(ts, cur)]
    /\ UNCHANGED <<now, processed_tasks, last_date_signature, task_queue, handlers,
                   net, dates, intervals, intervalFields, order, budget, hist>>

\* lines 71-73, 83-85: the request raises; process_task_from_queue (454) or
\* handle_order_client_linking (354) catches it and the task is abandoned
ApiRaise ==
    /\ Ready
    /\ w.pc # "call"
    /\ budget.apiErrors < MaxApiErrors
    /\ budget' = [budget EXCEPT !.apiErrors = @ + 1]
    /\ w' = Finish("exception")
    /\ UNCHANGED <<now, processed_tasks, last_date_signature, api_call_timestamps,
                   task_queue, handlers, net, dates, intervals, intervalFields,
                   order, hist>>

(* ------------------------- interval arithmetic ------------------------ *)
\* lines 94-98, on the difference in milliseconds
FormatDiffHoursOfTotal(diff_ms) ==
    << diff_ms \div 86400000, diff_ms \div 3600000, (diff_ms % 3600000) \div 60000 >>

FormatDiff(diff_ms) ==
    << diff_ms \div 86400000,
       (diff_ms % 86400000) \div 3600000,
       (diff_ms % 3600000) \div 60000 >>

\* lines 154-161: the text for one adjacent pair
IntervalText(a, b) ==
    IF a # Unset /\ b # Unset
    THEN IF b - a >= 0 THEN FormatDiff(b - a) ELSE <<>>
    ELSE <<>>

PairOrder == <<"12", "23", "34">>
IntervalOf(d, k) == IntervalText(d[k], d[k + 1])

\* lines 405-408, 194-199: (str(v) if v else None) per date; the digits of v
\* stand for str(v), Unset for None
SigOf(d) == [i \in DateFields |-> IF d[i] # Unset THEN d[i] ELSE Unset]

StoreSignatureOnce(sigs, task_id, sig) ==
    IF task_id \in DOMAIN sigs THEN sigs ELSE (task_id :> sig) @@ sigs

\* lines 200, 435: last_date_signature[task_id] = sig
StoreSignature(sigs, task_id, sig) == (task_id :> sig) @@ sigs

NewlyAssignedAnyDateSet(sigs, task_id, cur_sig) ==
    \E i \in DateFields : cur_sig[i] # Unset

\* lines 412-419
NewlyAssigned(sigs, task_id, cur_sig) ==
    IF task_id \notin DOMAIN sigs
    THEN \E i \in DateFields : cur_sig[i] # Unset
    ELSE \E i \in DateFields : sigs[task_id][i] = Unset /\ cur_sig[i] # Unset

PairExistsAnyDate(cur_sig) == \E i \in DateFields : cur_sig[i] # Unset

\* lines 421-427
PairExists(cur_sig) ==
    \/ cur_sig[1] # Unset /\ cur_sig[2] # Unset
    \/ cur_sig[2] # Unset /\ cur_sig[3] # Unset
    \/ cur_sig[3] # Unset /\ cur_sig[4] # Unset

\* the next pair after k whose Interval field exists on the task (4: none)
NextPair(fields, k) ==
    IF \E j \in (k + 1)..3 : PairOrder[j] \in fields
    THEN CHOOSE j \in (k + 1)..3 :
             /\ PairOrder[j] \in fields
             /\ \A i \in (k + 1)..(j - 1) : PairOrder[i] \notin fields
    ELSE 4

(* ------------------------------ worker -------------------------------- *)
QueueGetNewest(q) == [item |-> q[Len(q)], rest |-> SubSeq(q, 1, Len(q) - 1)]

\* line 463: queue.Queue.get() removes and returns the oldest item
QueueGet(q) == [item |-> Head(q), rest |-> Tail(q)]

\* lines 463-467, 373-379: take an item, the cooldown check, the mark
WorkerDequeue ==
    /\ w.pc = "idle"
    /\ task_queue # <<>>
    /\ LET task_id == QueueGet(task_queue).item[1]
           data == QueueGet(task_queue).item[2]
           cur == now
       IN  /\ task_queue' = QueueGet(task_queue).rest
           /\ IF /\ task_id \in DOMAIN processed_tasks
                 /\ cur - processed_tasks[task_id] < PROCESS_COOLDOWN
              THEN /\ w' = [IdleWorker EXCEPT !.pc = "done", !.task_id = task_id,
                                              !.cur = cur, !.outcome = "skipped"]
                   /\ UNCHANGED <<processed_tasks, hist>>
              ELSE /\ processed_tasks' = (task_id :> cur) @@ processed_tasks
                   /\ w' = Goto([IdleWorker EXCEPT !.task_id = task_id,
                                                   !.data = data], "fetch")
                   /\ hist' = [hist EXCEPT !.processedAt = (task_id :> cur) @@ @]
    /\ UNCHANGED <<now, last_date_signature, api_call_timestamps, handlers, net,
                   dates, intervals, intervalFields, order, budget>>

\* lines 439-444: the value of the first of the five keys that is in data
EventKeys == <<"event", "event_type", "hook_event", "webhook_event", "action">>
EventOf(data) ==
    LET present == {i \in DOMAIN EventKeys : data[EventKeys[i]] # Absent}
    IN  IF present = {} THEN None
        ELSE data[EventKeys[CHOOSE i \in present : \A j \in present : i <= j]]

\* str(event): the characters of the event values that occur
Str(event) ==
    CASE event = "taskCreated" -> <<"t", "a", "s", "k", "C", "r", "e", "a", "t", "e", "d">>
      [] event = "taskUpdated" -> <<"t", "a", "s", "k", "U", "p", "d", "a", "t", "e", "d">>
      [] event = "Create"      -> <<"C", "r", "e", "a", "t", "e">>
      [] OTHER                 -> <<>>

\* str.lower(), on the capitals that occur
LowerChar(c) == IF c = "C" THEN "c" ELSE IF c = "U" THEN "u" ELSE c
Lower(s) == [i \in DOMAIN s |-> LowerChar(s[i])]

\* sub in s
Contains(s, sub) ==
    \E i \in 0..(Len(s) - Len(sub)) : SubSeq(s, i + 1, i + Len(sub)) = sub

IsCreateEventCaseSensitive(event) ==
    LET evt_str == IF Truthy(event) THEN Str(event) ELSE <<>>
    IN  Contains(evt_str, <<"c", "r", "e", "a", "t", "e">>)

\* lines 445-446: evt_str = str(event).lower() if event else "";
\* "create" in evt_str or "taskcreated" in evt_str
IsCreateEvent(event) ==
    LET evt_str == IF Truthy(event) THEN Lower(Str(event)) ELSE <<>>
    IN  \/ Contains(evt_str, <<"c", "r", "e", "a", "t", "e">>)
        \/ Contains(evt_str, <<"t", "a", "s", "k", "c", "r", "e", "a", "t", "e", "d">>)

\* lines 382-453: the fetch of the task and the decision per list
WorkerFetch ==
    /\ Ready
    /\ w.pc = "fetch"
    /\ api_call_timestamps' = RecordApiCall(api_call_timestamps, now)
    /\ LET task_id == w.task_id
           found == task_id # "o1" \/ order.exists
           list_id == ListOf(task_id)
           cur_sig == SigOf(dates)
           first == NextPair(intervalFields, 0)
       IN  IF ~found
           THEN w' = Finish("fetch_failed") /\ UNCHANGED <<last_date_signature, hist>>
           ELSE IF list_id = CUSTOMER_LIST_ID
           THEN IF NewlyAssigned(last_date_signature, task_id, cur_sig)
                   /\ PairExists(cur_sig)
                THEN IF first = 4
                     THEN /\ w' = Finish("calculated")
                          /\ last_date_signature' =
                                 StoreSignature(last_date_signature, task_id, SigOf(dates))
                          /\ hist' = [hist EXCEPT !.calcDone = TRUE]
                     ELSE /\ w' = [Goto(w, "post") EXCEPT !.dates = dates, !.k = first]
                          /\ UNCHANGED <<last_date_signature, hist>>
                ELSE /\ w' = Finish("calc_skipped")
                     /\ last_date_signature' =
                            StoreSignature(last_date_signature, task_id, cur_sig)
                     /\ UNCHANGED hist
           ELSE IF list_id = ORDER_RECORD_LIST_ID
           THEN /\ IF IsCreateEvent(EventOf(w.data))
                   THEN w' = Goto(w, "link_get")
                   ELSE w' = Finish("link_skipped")
                /\ UNCHANGED <<last_date_signature, hist>>
           ELSE w' = Finish("unknown_list") /\ UNCHANGED <<last_date_signature, hist>>
    /\ UNCHANGED <<now, processed_tasks, task_queue, handlers, net, dates,
                   intervals, intervalFields, order, budget>>

\* lines 163-200 with 101-109: one update_interval_field_by_id of
\* calculate_all_intervals; after the last one the signature is stored.
\* ClickUp sends taskUpdated for the field the server has written.
WorkerPost ==
    /\ Ready
    /\ w.pc = "post"
    /\ api_call_timestamps' = RecordApiCall(api_call_timestamps, now)
    /\ intervals' = [intervals EXCEPT ![PairOrder[w.k]] = IntervalOf(w.dates, w.k)]
    /\ net' = [net EXCEPT ![DateHook] = @ + 1]
    /\ LET nk == NextPair(intervalFields, w.k)
       IN  IF nk = 4
           THEN /\ w' = Finish("calculated")
                /\ last_date_signature' =
                       StoreSignature(last_date_signature, w.task_id, SigOf(w.dates))
                /\ hist' = [hist EXCEPT !.calcDone = (w.dates = dates)]
           ELSE /\ w' = [Goto(w, "post") EXCEPT !.k = nk]
                /\ UNCHANGED <<last_date_signature, hist>>
    /\ UNCHANGED <<now, processed_tasks, task_queue, handlers, dates,
                   intervalFields, order, budget>>

\* lines 472-473, 461-463: task_done(), back to task_queue.get()
TaskDone ==
    /\ w.pc = "done"
    /\ w' = IdleWorker
    /\ UNCHANGED <<now, processed_tasks, last_date_signature, api_call_timestamps,
                   task_queue, handlers, net, dates, intervals, intervalFields,
                   order, budget, hist>>

(* ----------------------- Order Record linking ------------------------- *)
\* the Customer list as the search returns it, and name.strip().lower()
CustomerName == "Acme"
OrderClientNames == {"ACME ", "Nobody", None}
Normalised(name) ==
    IF name \in {"Acme", "ACME "} THEN "acme"
    ELSE IF name = "Nobody" THEN "nobody"
    ELSE name

\* lines 290-296: the first Customer task whose name matches
MatchCustomer(client_name) ==
    IF Normalised(CustomerName) = Normalised(client_name) THEN "c1" ELSE None

\* lines 316-331: the first stored value of the relationship is the match
AlreadyLinked(existing_vals, client_task_id) ==
    /\ existing_vals # <<>>
    /\ existing_vals[1] = client_task_id

\* the API's {"add": [id], "rem": []} on a relationship field
AddLink(vals, id) ==
    IF \E j \in 1..Len(vals) : vals[j] = id THEN vals ELSE Append(vals, id)

\* lines 245-277: fetch the order task, read Client Name and Client
LinkGet ==
    /\ Ready
    /\ w.pc = "link_get"
    /\ api_call_timestamps' = RecordApiCall(api_call_timestamps, now)
    /\ IF ~Truthy(order.client_name)
       THEN w' = Finish("no_client_name")
       ELSE w' = [Goto(w, "link_search") EXCEPT !.client_name = order.client_name,
                                               !.existing = order.client]
    /\ UNCHANGED <<now, processed_tasks, last_date_signature, task_queue, handlers,
                   net, dates, intervals, intervalFields, order, budget, hist>>

\* lines 281-335: search the Customer list, match by name, skip if linked
LinkSearch ==
    /\ Ready
    /\ w.pc = "link_search"
    /\ api_call_timestamps' = RecordApiCall(api_call_timestamps, now)
    /\ LET matched == MatchCustomer(w.client_name)
       IN  IF matched = None
           THEN w' = Finish("no_match")
           ELSE IF AlreadyLinked(w.existing, matched)
           THEN w' = Finish("already_linked")
           ELSE w' = [Goto(w, "link_post") EXCEPT !.matched = matched]
    /\ UNCHANGED <<now, processed_tasks, last_date_signature, task_queue, handlers,
                   net, dates, intervals, intervalFields, order, budget, hist>>

\* lines 343-351, 208: write the relationship, then sleep before verifying
LinkPost ==
    /\ Ready
    /\ w.pc = "link_post"
    /\ api_call_timestamps' = RecordApiCall(api_call_timestamps, now)
    /\ order' = [order EXCEPT !.client = AddLink(@, w.matched)]
    /\ w' = [Goto(w, "verify") EXCEPT !.wake = now + VerifySleep]
    /\ hist' = [hist EXCEPT !.linked = TRUE]
    /\ UNCHANGED <<now, processed_tasks, last_date_signature, task_queue, handlers,
                   net, dates, intervals, intervalFields, budget>>

\* lines 210-239: the verifying fetch; its result is only printed
LinkVerify ==
    /\ Ready
    /\ w.pc = "verify"
    /\ api_call_timestamps' = RecordApiCall(api_call_timestamps, now)
    /\ w' = Finish("linked")
    /\ UNCHANGED <<now, processed_tasks, last_date_signature, task_queue, handlers,
                   net, dates, intervals, intervalFields, order, budget, hist>>

(* --------------------------- environment ------------------------------ *)
\* a user sets, changes or clears a date of the Customer task; ClickUp
\* sends taskUpdated
SetDate(i, v) ==
    /\ budget.edits < MaxEdits
    /\ v # dates[i]
    /\ dates' = [dates EXCEPT ![i] = v]
    /\ net' = [net EXCEPT ![DateHook] = @ + 1]
    /\ budget' = [budget EXCEPT !.edits = @ + 1]
    /\ hist' = [hist EXCEPT !.edited = TRUE, !.calcDone = FALSE]
    /\ UNCHANGED <<now, processed_tasks, last_date_signature, api_call_timestamps,
                   task_queue, handlers, w, intervals, intervalFields, order>>

\* a user creates the Order Record; ClickUp sends taskCreated
CreateOrder(name) ==
    /\ budget.edits < MaxEdits
    /\ ~order.exists
    /\ order' = [exists |-> TRUE, client_name |-> name, client |-> <<>>]
    /\ net' = [net EXCEPT ![CreateHook] = @ + 1]
    /\ budget' = [budget EXCEPT !.edits = @ + 1]
    /\ UNCHANGED <<now, processed_tasks, last_date_signature, api_call_timestamps,
                   task_queue, handlers, w, dates, intervals, intervalFields, hist>>

RestartKeepsSignatures ==
    /\ budget.restarts < MaxRestarts
    /\ budget' = [budget EXCEPT !.restarts = @ + 1]
    /\ processed_tasks' = <<>>
    /\ api_call_timestamps' = <<>>
    /\ task_queue' = <<>>
    /\ handlers' = [h \in Handlers |-> IdleHandler]
    /\ w' = IdleWorker
    /\ hist' = NoHistory
    /\ UNCHANGED <<now, last_date_signature, net, dates, intervals, intervalFields,
                   order>>

\* the process is restarted: lines 19-26, 363, 479-483 run again
Restart ==
    /\ budget.restarts < MaxRestarts
    /\ budget' = [budget EXCEPT !.restarts = @ + 1]
    /\ processed_tasks' = <<>>
    /\ last_date_signature' = <<>>
    /\ api_call_timestamps' = <<>>
    /\ task_queue' = <<>>
    /\ handlers' = [h \in Handlers |-> IdleHandler]
    /\ w' = IdleWorker
    /\ hist' = NoHistory
    /\ UNCHANGED <<now, net, dates, intervals, intervalFields, order>>

(* ---------------- the rate limiter under any call sequence ------------- *)
TickRate ==
    /\ now < RateMaxTime
    /\ now' = now + 1
    /\ UNCHANGED <<processed_tasks, last_date_signature, api_call_timestamps,
                   task_queue, handlers, w, net, dates, intervals,
                   intervalFields, order, budget, hist>>

\* the worker enters clickup_get or clickup_post (lines 65-66, 75-76)
CallBegin ==
    /\ w.pc = "idle"
    /\ w' = Goto(w, "call")
    /\ UNCHANGED <<now, processed_tasks, last_date_signature, api_call_timestamps,
                   task_queue, handlers, net, dates, intervals, intervalFields,
                   order, budget, hist>>

\* the request returns and is recorded (lines 68-70, 80-82)
CallEnd ==
    /\ Ready
    /\ w.pc = "call"
    /\ api_call_timestamps' = RecordApiCall(api_call_timestamps, now)
    /\ w' = IdleWorker
    /\ UNCHANGED <<now, processed_tasks, last_date_signature, task_queue, handlers,
                   net, dates, intervals, intervalFields, order, budget, hist>>

\* the request raises and is not recorded (lines 71-73, 83-85)
CallRaise ==
    /\ Ready
    /\ w.pc = "call"
    /\ w' = IdleWorker
    /\ UNCHANGED <<now, processed_tasks, last_date_signature, api_call_timestamps,
                   task_queue, handlers, net, dates, intervals, intervalFields,
                   order, budget, hist>>

(* --------------------------- specifications --------------------------- *)
\* the endpoint: clickup_webhook in the request threads `threads`, for the
\* webhooks of the user operations
Endpoint(threads) ==
    \/ \E h \in threads : Deliver(h)
    \/ \E h \in threads : Put(h)
    \/ \E h \in threads : Mark(h)
    \/ \E h \in threads : Return(h)

\* the whole system
Next ==
    \/ Tick
    \/ Endpoint(Handlers)
    \/ \E h \in Handlers : DeliverOther(h, SpontPayloads, MaxSpontaneous)
    \/ WorkerDequeue
    \/ EnsureRateLimit
    \/ ApiRaise
    \/ WorkerFetch
    \/ WorkerPost
    \/ TaskDone
    \/ LinkGet
    \/ LinkSearch
    \/ LinkPost
    \/ LinkVerify
    \/ \E i \in DateFields, v \in DateValues \cup {Unset} : SetDate(i, v)
    \/ \E name \in OrderClientNames : CreateOrder(name)
    \/ Restart

Spec == Init /\ [][Next]_vars

\* The system under separate environments. Each leaves out the user
\* operations of the others, and with them the worker steps that those
\* operations alone make reachable.

\* webhooks of any shape arrive for a workspace nobody edits
NextHook ==
    \/ Tick
    \/ \E h \in Handlers : DeliverOther(h, SpontPayloads, MaxHooks)
    \/ \E h \in Handlers : Put(h)
    \/ \E h \in Handlers : Mark(h)
    \/ \E h \in Handlers : Return(h)
    \/ WorkerDequeue
    \/ EnsureRateLimit
    \/ ApiRaise
    \/ WorkerFetch
    \/ TaskDone

SpecHook == Init /\ [][NextHook]_vars

\* a user edits the dates of the Customer task; the process may restart
NextCustomer ==
    \/ Tick
    \/ Endpoint({"h1"})
    \/ WorkerDequeue
    \/ EnsureRateLimit
    \/ WorkerFetch
    \/ WorkerPost
    \/ ApiRaise
    \/ TaskDone
    \/ \E i \in DateFields, v \in DateValues \cup {Unset} : SetDate(i, v)
    \/ Restart

SpecCustomer == InitFields /\ [][NextCustomer]_vars

\* a user creates the Order Record; other webhooks for it arrive too
NextOrder ==
    \/ Tick
    \/ Endpoint(Handlers)
    \/ \E h \in Handlers : DeliverOther(h, OrderHooks, MaxSpontaneous)
    \/ WorkerDequeue
    \/ EnsureRateLimit
    \/ WorkerFetch
    \/ TaskDone
    \/ LinkGet
    \/ LinkSearch
    \/ LinkPost
    \/ LinkVerify
    \/ \E name \in OrderClientNames : CreateOrder(name)

SpecOrder == Init /\ [][NextOrder]_vars

\* one webhook for a Customer task whose dates are already there
NextInterval ==
    \/ DeliverOther("h1", {DateHook}, 1)
    \/ Put("h1")
    \/ Mark("h1")
    \/ Return("h1")
    \/ WorkerDequeue
    \/ EnsureRateLimit
    \/ WorkerFetch
    \/ WorkerPost
    \/ TaskDone

SpecInterval == InitInterval /\ [][NextInterval]_vars

\* webhooks of two tasks arrive faster than the worker takes them
NextQueue ==
    \/ Tick
    \/ \E h \in Handlers : DeliverOther(h, QueueHooks, MaxQueueHooks)
    \/ \E h \in Handlers : Put(h)
    \/ \E h \in Handlers : Mark(h)
    \/ \E h \in Handlers : Return(h)
    \/ WorkerDequeue
    \/ EnsureRateLimit
    \/ WorkerFetch
    \/ TaskDone

SpecQueue == Init /\ [][NextQueue]_vars

\* creation webhooks for an Order Record that is already there
NextRelink ==
    \/ TickRate
    \/ DeliverOther("h1", {CreateHook}, MaxHooks)
    \/ Put("h1")
    \/ Mark("h1")
    \/ Return("h1")
    \/ WorkerDequeue
    \/ EnsureRateLimit
    \/ WorkerFetch
    \/ TaskDone
    \/ LinkGet
    \/ LinkSearch
    \/ LinkPost
    \/ LinkVerify

SpecRelink == InitRelink /\ [][NextRelink]_vars

\* the rate limiter under any sequence of API calls of the worker
NextRate ==
    \/ TickRate
    \/ CallBegin
    \/ EnsureRateLimit
    \/ CallEnd
    \/ CallRaise

SpecRate == Init /\ [][NextRate]_vars

(* ------------------------------ claims -------------------------------- *)
\* nothing is on its way: no webhook undelivered, no request being handled,
\* the queue empty, the worker waiting in task_queue.get()
Quiescent ==
    /\ \A p \in NetPayloads : net[p] = 0
    /\ \A h \in Handlers : handlers[h].pc = "idle"
    /\ task_queue = <<>>
    /\ w.pc = "idle"

\* handler h takes a step of clickup_webhook
HandlerStep(h) == handlers'[h] # handlers[h] /\ budget'.restarts = budget.restarts

\* the request h is handling in that step
Request(h) == IF handlers'[h].pc = "idle" THEN handlers[h] ELSE handlers'[h]

\* C1: the worker skips a dequeued task by its cooldown check only when the
\* worker itself took that task up less than PROCESS_COOLDOWN seconds earlier
\* (never merely because of the mark clickup_webhook wrote on enqueueing it).
C1_SkipOnlyAfterWorkerProcessed ==
    (w.pc = "done" /\ w.outcome = "skipped") =>
        /\ w.task_id \in DOMAIN hist.processedAt
        /\ w.cur - hist.processedAt[w.task_id] < PROCESS_COOLDOWN

\* C2: no two enqueued webhooks of one task were received less than
\* PROCESS_COOLDOWN seconds apart.
C2_NoDuplicateEnqueue ==
    \A a \in hist.enqueued, b \in hist.enqueued :
        (a # b /\ a[1] = b[1]) =>
            \/ a[2] - b[2] >= PROCESS_COOLDOWN
            \/ b[2] - a[2] >= PROCESS_COOLDOWN

\* C3: no API_RATE_LIMIT + 1 recorded calls lie within API_WINDOW_SECONDS of
\* each other, and a call that finds API_RATE_LIMIT calls in the window is
\* held until the oldest of them has left the window. (A recorded call is
\* dropped from the deque only once it is older than the window, so any two
\* calls within one window are in the deque together.)
C3_RateLimit ==
    /\ \A i \in DOMAIN api_call_timestamps, j \in DOMAIN api_call_timestamps :
           j - i >= API_RATE_LIMIT =>
               api_call_timestamps[j] - api_call_timestamps[i] > API_WINDOW_SECONDS
    /\ (w.pc \in ApiPcs /\ w.phase = "request"
            /\ Len(api_call_timestamps) >= API_RATE_LIMIT) =>
           w.wake - API_WINDOW_SECONDS > Head(api_call_timestamps)

\* a call was made after the limit had been reached
C3_Witness == Len(api_call_timestamps) > API_RATE_LIMIT

\* C4: the queue never holds more than TASK_QUEUE_MAX items, and a put on a
\* full queue is answered 200 queue_full, adds no entry and leaves
\* processed_tasks as it is.
C4_QueueBounded ==
    /\ [](Len(task_queue) <= TASK_QUEUE_MAX)
    /\ [][\A h \in Handlers :
            (HandlerStep(h) /\ handlers[h].pc = "put"
                 /\ Len(task_queue) >= TASK_QUEUE_MAX) =>
                /\ handlers'[h].pc = "done"
                /\ handlers'[h].resp = Resp(200, "queue_full")
                /\ task_queue' = task_queue
                /\ processed_tasks' = processed_tasks]_vars

\* a webhook was dropped on a full queue
C4_Witness ==
    \E h \in Handlers :
        /\ handlers[h].resp = Resp(200, "queue_full")
        /\ handlers[h].task_id \notin DOMAIN processed_tasks

\* C5: for a payload with a task id, no step of clickup_webhook makes an API
\* call or writes last_date_signature or the workspace; the answer is 200 with
\* accepted, duplicate or queue_full; accepted comes with exactly one entry
\* (task_id, payload) appended and processed_tasks[task_id] set to the receive
\* time, duplicate and queue_full with nothing enqueued, duplicate with
\* processed_tasks unchanged.
C5_EndpointOnlyEnqueues ==
    [][\A h \in Handlers :
        (HandlerStep(h) /\ Truthy(Request(h).task_id)) =>
            LET r == Request(h)
                after == handlers'[h]
            IN  /\ api_call_timestamps' = api_call_timestamps
                /\ last_date_signature' = last_date_signature
                /\ <<dates, intervals, order>>' = <<dates, intervals, order>>
                /\ after.pc = "done" =>
                       after.resp \in { Resp(200, "accepted"), Resp(200, "duplicate"),
                                        Resp(200, "queue_full") }
                /\ (after.pc = "done" /\ after.resp.body = "accepted") =>
                       /\ handlers[h].pc = "mark"
                       /\ task_queue' = task_queue
                       /\ processed_tasks' =
                              (r.task_id :> r.current_time) @@ processed_tasks
                /\ after.pc = "mark" =>
                       /\ handlers[h].pc = "put"
                       /\ task_queue' = Append(task_queue, <<r.task_id, r.data>>)
                       /\ processed_tasks' = processed_tasks
                /\ after.resp.body = "duplicate" => handlers[h].pc = "idle"
                /\ after.resp.body = "queue_full" => handlers[h].pc = "put"
                /\ after.pc = "put" => handlers[h].pc = "idle"
                /\ after.pc # "mark" => task_queue' = task_queue
                /\ after.pc # "done" \/ after.resp.body # "accepted" =>
                       processed_tasks' = processed_tasks]_vars

\* a webhook was accepted some time after it was received
C5_Witness ==
    \E h \in Handlers :
        /\ handlers[h].resp = Resp(200, "accepted")
        /\ now > handlers[h].current_time

\* the payload has neither a top-level task_id nor task.id
NoTaskId(data) ==
    /\ data.task_id \in {None, ""}
    /\ data.task.kind # "dict" \/ data.task.id = None

\* C6: a payload with neither task_id nor task.id is answered 400
\* "no task_id", and the queue, processed_tasks and last_date_signature stay
\* as they are.
C6_NoTaskIdRejected ==
    [][\A h \in Handlers :
        (HandlerStep(h) /\ handlers[h].pc = "idle" /\ NoTaskId(handlers'[h].data)) =>
            /\ handlers'[h].pc = "done"
            /\ handlers'[h].resp = Resp(400, "no task_id")
            /\ task_queue' = task_queue
            /\ processed_tasks' = processed_tasks
            /\ last_date_signature' = last_date_signature]_vars

\* a payload whose "task" is a dict without an id was rejected
C6_Witness ==
    \E h \in Handlers :
        /\ handlers[h].resp = Resp(400, "no task_id")
        /\ handlers[h].data.task.kind = "dict"

\* the Interval text the dates call for: the formatted difference when both
\* dates of the pair are set and in order, the empty text otherwise
ExpectedInterval(d, k) ==
    IF d[k] # Unset /\ d[k + 1] # Unset /\ d[k + 1] >= d[k]
    THEN FormatDiff(d[k + 1] - d[k])
    ELSE <<>>

\* C7: once every webhook of the date changes has been handled and nothing is
\* left to do, the Interval fields equal the values computed from the dates
\* (in a run without restart).
C7_IntervalsFollowDates ==
    (Quiescent /\ budget.restarts = 0) =>
        \A k \in 1..3 :
            PairOrder[k] \in intervalFields =>
                intervals[PairOrder[k]] = ExpectedInterval(dates, k)

\* C8: once the creation webhook of an Order Record whose Client Name matches
\* a Customer has been handled and nothing is left to do, the Client
\* relationship is written.
C8_CreatedOrderLinked ==
    (Quiescent /\ order.exists /\ MatchCustomer(order.client_name) # None) =>
        (order.client # <<>> /\ order.client[1] = MatchCustomer(order.client_name))

\* the worker completes the fetch of the task it took up
FetchStep ==
    /\ w.pc = "fetch" /\ w.phase = "request" /\ w' # w
    /\ budget' = budget

\* C9: a restart empties processed_tasks and last_date_signature; the first
\* webhook of a task after it is never answered duplicate; and the first
\* processing of a Customer task that has an adjacent pair of dates set
\* calculates its intervals.
C9_MapsAreTransient ==
    /\ [](\A h \in Handlers : handlers[h].resp.body = "duplicate" => ~handlers[h].first)
    /\ [][/\ budget'.restarts # budget.restarts =>
                (processed_tasks' = <<>> /\ last_date_signature' = <<>>)
          /\ (FetchStep /\ ListOf(w.task_id) = CUSTOMER_LIST_ID
                  /\ w.task_id \notin DOMAIN last_date_signature
                  /\ \E k \in 1..3 : dates[k] # Unset /\ dates[k + 1] # Unset) =>
                (w'.pc = "post" /\ w'.dates = dates)]_vars

\* after a restart, with no date edited since, intervals are being written
C9_Witness ==
    /\ budget.restarts = 1
    /\ ~hist.edited
    /\ w.pc = "post"
    /\ w.task_id \notin DOMAIN last_date_signature

\* C10: while the worker is inside calculate_all_intervals, some date of the
\* fetched task is set that the recorded signature has unset (or there is no
\* signature), and some adjacent pair of the fetched dates is set; and an
\* Interval field is written only there.
C10_CalcOnlyWhenNewPair ==
    /\ [](w.pc = "post" =>
            /\ \E i \in DateFields :
                   /\ w.dates[i] # Unset
                   /\ \/ w.task_id \notin DOMAIN last_date_signature
                      \/ last_date_signature[w.task_id][i] = Unset
            /\ \E k \in 1..3 : w.dates[k] # Unset /\ w.dates[k + 1] # Unset)
    /\ [][intervals' # intervals => (w.pc = "post" /\ w.phase = "request")]_vars

\* an interval is about to be written for a task whose signature is known
C10_Witness ==
    /\ w.pc = "post"
    /\ w.phase = "request"
    /\ w.task_id \in DOMAIN last_date_signature

\* C11: within one run of the process, once an interval calculation of the
\* Customer task has completed and while its dates stay as they were
\* calculated, no webhook for the task (the taskUpdated webhooks of the
\* server's own writes included) brings the worker to write an Interval field
\* again.
C11_NoFeedbackLoop ==
    /\ [](hist.calcDone => w.pc # "post")
    /\ [][hist.calcDone => intervals' = intervals]_vars

\* with the calculation done and a webhook of the server's own writes still to
\* come, a further webhook of the task has been processed without a write
C11_Witness ==
    /\ hist.calcDone
    /\ net[DateHook] > 0
    /\ w.pc = "done"
    /\ w.task_id = "c1"
    /\ w.outcome = "calc_skipped"
    /\ hist.processedAt["c1"] > 0

\* the worker finishes a Customer-list task it has fetched, with no exception
CustomerFinish ==
    /\ w.pc \in {"fetch", "post"}
    /\ ListOf(w.task_id) = CUSTOMER_LIST_ID
    /\ w'.pc = "done"
    /\ w'.outcome \in {"calculated", "calc_skipped"}

\* the dates as the GET of that processing returned them
FetchedDates == IF w.pc = "fetch" THEN dates ELSE w.dates

\* C12: when the worker finishes a Customer-list task without an exception,
\* last_date_signature[task_id] is the 4-tuple of the T1..T4 values fetched in
\* that processing (None for an unset date), whether the intervals were
\* calculated or the calculation was skipped.
C12_SignatureIsFetchedDates ==
    [][CustomerFinish =>
            /\ w.task_id \in DOMAIN last_date_signature'
            /\ \A i \in DateFields :
                   last_date_signature'[w.task_id][i] = FetchedDates[i]]_vars

\* the calculation was skipped for a task that has a date set, and the
\* signature with that date is stored
C12_Witness ==
    /\ w.pc = "done"
    /\ w.outcome = "calc_skipped"
    /\ w.task_id \in DOMAIN last_date_signature
    /\ \E i \in DateFields : last_date_signature[w.task_id][i] # Unset

\* the difference of a pair of dates in whole seconds
WholeSeconds(d, k) == (d[k + 1] - d[k]) \div 1000

\* the text written for s whole seconds is "{d}d {h}h {m}m" with the stated
\* quotients, and these lie in the stated ranges
TextFor(text, s) ==
    /\ text = << s \div 86400, (s % 86400) \div 3600, (s % 3600) \div 60 >>
    /\ 0 <= text[2] /\ text[2] < 24
    /\ 0 <= text[3] /\ text[3] < 60
    /\ text[1] * 86400 + text[2] * 3600 + text[3] * 60 <= s
    /\ s < text[1] * 86400 + text[2] * 3600 + text[3] * 60 + 60

\* C13: when calculate_all_intervals has returned, every pair whose Interval
\* field exists holds "{d}d {h}h {m}m" for the difference in whole seconds
\* (d = s div 86400, h = (s mod 86400) div 3600, m = (s mod 3600) div 60,
\* 0 <= h < 24, 0 <= m < 60, d*86400 + h*3600 + m*60 <= s < that + 60) if both
\* dates are set and in order, and the empty text otherwise; a pair whose
\* Interval field does not exist is not written, and one API call was made
\* per existing field besides the fetch.
C13_IntervalTexts ==
    (w.pc = "done" /\ w.outcome = "calculated") =>
        /\ \A k \in 1..3 :
               IF PairOrder[k] \notin intervalFields
               THEN intervals[PairOrder[k]] = StaleText
               ELSE IF dates[k] # Unset /\ dates[k + 1] # Unset
                       /\ dates[k + 1] >= dates[k]
               THEN TextFor(intervals[PairOrder[k]], WholeSeconds(dates, k))
               ELSE intervals[PairOrder[k]] = <<>>
        /\ Len(api_call_timestamps) = 1 + Cardinality(intervalFields)

\* a calculation has written a text with days, hours and minutes, an empty
\* text for dates out of order, and has left out a missing field
C13_Witness ==
    /\ w.pc = "done"
    /\ w.outcome = "calculated"
    /\ intervalFields = {"12", "23"}
    /\ intervals["12"] = <<1, 1, 0>>
    /\ intervals["23"] = <<>>
    /\ dates[3] # Unset

\* the event values of the payloads that contain "create" in some case
CreateWords == {"taskCreated", "Create"}

\* the payload's event value (that of the first key present among event,
\* event_type, hook_event, webhook_event, action) contains "create"
HasCreateEvent(data) ==
    IF data.event # Absent THEN data.event \in CreateWords
    ELSE IF data.event_type # Absent THEN data.event_type \in CreateWords
    ELSE IF data.hook_event # Absent THEN data.hook_event \in CreateWords
    ELSE IF data.webhook_event # Absent THEN data.webhook_event \in CreateWords
    ELSE IF data.action # Absent THEN data.action \in CreateWords
    ELSE FALSE

\* the worker has a task that is in neither the Customer nor the Order
\* Record list
InOtherList == w.task_id \in TaskIds /\ ListOf(w.task_id) = OTHER_LIST_ID

\* the worker is inside handle_order_client_linking
Linking == w.pc \in {"link_get", "link_search", "link_post", "verify"}

\* C14: having fetched a task of the Order Record list, the worker enters
\* handle_order_client_linking if and only if the payload's event value
\* contains "create" in any case; the Client relationship is written only for
\* such a payload; and for a task of neither list the worker writes nothing.
C14_LinkOnlyOnCreate ==
    /\ [][(FetchStep /\ w'.outcome # "fetch_failed"
               /\ ListOf(w.task_id) = ORDER_RECORD_LIST_ID) =>
              (w'.pc = "link_get" <=> HasCreateEvent(w.data))]_vars
    /\ [][order'.client # order.client =>
              (ListOf(w.task_id) = ORDER_RECORD_LIST_ID /\ HasCreateEvent(w.data))]_vars
    /\ [](Linking => ListOf(w.task_id) = ORDER_RECORD_LIST_ID)
    /\ [](InOtherList => w.pc \in {"fetch", "done"})
    /\ [][(InOtherList /\ w' # w) =>
              (order' = order /\ intervals' = intervals)]_vars

\* linking was entered for a payload whose event is "Create" under the key
\* action, the last of the five
C14_Witness ==
    /\ w.pc = "link_get"
    /\ w.data.action = "Create"
    /\ w.data.event = Absent

\* the worker issues the relationship write of handle_order_client_linking
LinkWrite == w.pc = "link_post" /\ w.phase = "request" /\ w'.pc # "link_post"

\* C15: handle_order_client_linking issues no write when the first value
\* stored in the Client relationship is the matched Customer task, issues at
\* most one write per call, and issues no write for an Order Record whose
\* relationship it has written before.
C15_LinkingIdempotent ==
    /\ [](w.pc = "link_post" => ~(w.existing # <<>> /\ w.existing[1] = w.matched))
    /\ [][LinkWrite => w'.pc \in {"verify", "done"}]_vars
    /\ [][w.pc \in {"verify", "done"} => w'.pc # "link_post"]_vars
    /\ [][LinkWrite => ~hist.linked]_vars

\* an entry leaves the queue
Dequeued == Len(task_queue') < Len(task_queue)

\* an API request of the server is in flight
InFlight == w.pc \in ApiPcs /\ w.phase = "request"

\* C16: entries enter the queue at the back and leave it at the front, and
\* the worker takes the entry that leaves; an entry leaves only while the
\* worker is waiting in task_queue.get(), the processing of the previous one
\* having returned; and only a step of the worker, in clickup_get or
\* clickup_post, makes an API call, so no two calls are in flight together.
C16_FifoSingleWorker ==
    /\ [][task_queue' # task_queue =>
              \/ /\ Dequeued
                 /\ task_queue' = Tail(task_queue)
                 /\ w.pc = "idle"
                 /\ w'.pc \in {"fetch", "done"}
                 /\ w'.task_id = Head(task_queue)[1]
                 /\ w'.pc = "fetch" => w'.data = Head(task_queue)[2]
              \/ /\ ~Dequeued
                 /\ Len(task_queue') = Len(task_queue) + 1
                 /\ SubSeq(task_queue', 1, Len(task_queue)) = task_queue
                 /\ w' = w]_vars
    /\ [][Len(api_call_timestamps') > Len(api_call_timestamps) =>
              /\ InFlight
              /\ w' # w
              /\ handlers' = handlers
              /\ Len(api_call_timestamps') = Len(api_call_timestamps) + 1]_vars
    /\ [][(w.pc # "idle" /\ w'.pc # "idle") => w'.task_id = w.task_id]_vars

\* the worker is in an API call for one entry while two entries of different
\* tasks, the older one of the worker's own task, wait in the queue
C16_Witness ==
    /\ InFlight
    /\ Len(task_queue) = 2
    /\ task_queue[1][1] # task_queue[2][1]
    /\ w.task_id = task_queue[1][1]

\* the recorded calls that are not older than the window at time cur
InWindow(ts, cur) == {i \in DOMAIN ts : ts[i] >= cur - API_WINDOW_SECONDS}

\* the worker passes ensure_rate_limit in this step
EnsureStep == w.pc \in ApiPcs /\ w.phase = "ensure" /\ w'.phase = "request"

\* C17: ensure_rate_limit keeps exactly the recorded calls of the last
\* API_WINDOW_SECONDS seconds and counts those; with at least
\* API_THROTTLE_SAFE and fewer than API_RATE_LIMIT of them the call is held
\* for 1 second, with fewer than API_THROTTLE_SAFE it is not held; and a
\* call is made only once the time it is held for has passed.
C17_BackoffBeforeLimit ==
    /\ [][EnsureStep =>
              LET used == Cardinality(InWindow(api_call_timestamps, now))
              IN  /\ Len(api_call_timestamps') = used
                  /\ \A i \in DOMAIN api_call_timestamps' :
                         api_call_timestamps'[i] >= now - API_WINDOW_SECONDS
                  /\ (used >= API_THROTTLE_SAFE /\ used < API_RATE_LIMIT) =>
                         w'.wake = now + 1
                  /\ used < API_THROTTLE_SAFE => w'.wake = now]_vars
    /\ [][Len(api_call_timestamps') > Len(api_call_timestamps) => now >= w.wake]_vars

\* a call is held for a second with API_THROTTLE_SAFE calls in the window,
\* the oldest of them exactly a window old
C17_Witness ==
    /\ InFlight
    /\ w.wake = now + 1
    /\ Len(api_call_timestamps) = API_THROTTLE_SAFE
    /\ now - Head(api_call_timestamps) = API_WINDOW_SECONDS
    /\ now > API_WINDOW_SECONDS + 1
====
